---------------------------- MODULE Spec2Model ----------------------------
(***************************************************************************)
(* Model of src/trajectory.py: the Projectile integrator, the              *)
(* startSimulation loop and WindForceModel.getWindForce.                   *)
(*                                                                         *)
(* Arithmetic is exact.  The program computes in binary floating point;    *)
(* the model computes the same expressions over the integers, in units     *)
(* chosen so that every quantity of a run is a whole number:               *)
(*     time          1 = dt = 0.05 s                                       *)
(*     velocity      1 = 0.01 m/s                                          *)
(*     acceleration  1 = 0.01 m/s per dt = 0.2 m/s^2   (so -9.8 is -49)    *)
(*     position      1 = 0.5 * 0.01 m/s * 0.05 s = 0.00025 m               *)
(* With these units a*dt is a velocity, and 0.5*(v_old + v_new)*dt is the  *)
(* position increment (v_old + v_new)*dt: the factor 0.5 is the position   *)
(* unit.  A speed v travels 2*v position units per unit of time.           *)
(* Rounding of the floating-point operations is not modelled.              *)
(***************************************************************************)
EXTENDS Integers, Sequences, FiniteSets

VARIABLES
    x0, y0, velocity, angle, mass, wind_force,  \* arguments of startSimulation
    pc,          \* position in startSimulation / in the caller
    projectile,  \* the Projectile object of the run
    t,           \* startSimulation's local t
    ret,         \* the tuple startSimulation returned, <<>> before it returns
    base,        \* the first result a sweeping caller kept, <<>> when none
    wind,        \* the WindForceModel object
    windspeed,   \* argument of the last getWindForce call
    F            \* value the last getWindForce call returned

args == <<x0, y0, velocity, angle, mass, wind_force>>
windVars == <<wind, windspeed, F>>
vars == <<x0, y0, velocity, angle, mass, wind_force, pc, projectile, t, ret,
          base, wind, windspeed, F>>

---------------------------------------------------------------------------
(* Bounds of the model *)

MaxX0 == 1
MaxHeight == 3
MaxVel == 2
VelStep == 7
MaxMass == 2
MaxWind == 1
MaxSteps == 10
MaxCd == 2
MaxDim == 3
MaxWindSpeed == 3

---------------------------------------------------------------------------
(* Program constants *)

\* dt = 0.05 in startSimulation: the unit of time
dt == 1

\* self.ay = -9.8, in units of 0.2 m/s^2
Gravity == -49

\* self.conversion = 1.0
conversion == 1

---------------------------------------------------------------------------
(* Exact arithmetic helpers *)

RECURSIVE Gcd(_, _)
Gcd(a, b) == IF b = 0 THEN a ELSE Gcd(b, a % b)

RECURSIVE LcmUpTo(_)
LcmUpTo(n) == IF n <= 1 THEN 1 ELSE LET m == LcmUpTo(n - 1) IN (m * n) \div Gcd(m, n)

\* a / b for b # 0, on operands whose quotient is a whole number
Quot(a, b) == IF b > 0 THEN a \div b ELSE (-a) \div (-b)

\* cos(radians(angle)) and sin(radians(angle)) times 5, for the angles whose
\* sine and cosine are multiples of 1/5; 37 stands for atan(3/4) = 36.87 degrees
Angles == {0, 37, 90, 180, 270}

Cos5(a) == CASE a = 0 -> 5 [] a = 37 -> 4 [] a = 90 -> 0 [] a = 180 -> -5 [] a = 270 -> 0

Sin5(a) == CASE a = 0 -> 0 [] a = 37 -> 3 [] a = 90 -> 5 [] a = 180 -> 0 [] a = 270 -> -5

---------------------------------------------------------------------------
(* Inputs *)

X0s == 0..MaxX0

\* heights are multiples of |ay|*dt^2, so that samples with y = 0 occur
Heights == {(-Gravity) * dt * dt * k : k \in -1..MaxHeight}

Velocities == {5 * VelStep * k : k \in 0..MaxVel}

Masses == -MaxMass..MaxMass

\* forces are multiples of every mass, so that wind_force / mass is whole
WindForces == {LcmUpTo(MaxMass) * k : k \in -MaxWind..MaxWind}

---------------------------------------------------------------------------
(* class Projectile *)

NoProjectile ==
    [x |-> 0, y |-> 0, vx |-> 0, vy |-> 0, ax |-> 0, ay |-> 0, time |-> 0,
     xarr |-> <<>>, yarr |-> <<>>]

InitVx_sin(v, a) == (v * Sin5(a)) \div 5

InitVx(v, a) == (v * Cos5(a)) \div 5

InitVy(v, a) == (v * Sin5(a)) \div 5

\* Projectile.__init__; wind_force / mass raises ZeroDivisionError when m = 0
Projectile(px, py, v, a, m, wf) ==
    [x |-> px, y |-> py,
     vx |-> InitVx(v, a), vy |-> InitVy(v, a),
     ax |-> Quot(wf, m), ay |-> Gravity,
     time |-> 0,
     xarr |-> <<px * conversion>>, yarr |-> <<py * conversion>>]

updateVx(p, d) == [p EXCEPT !.vx = p.vx + p.ax * d]

updateVy_nogravity(p, d) == p

updateVy_ax(p, d) == [p EXCEPT !.vy = p.vy + (p.ay + p.ax) * d]

updateVy(p, d) == [p EXCEPT !.vy = p.vy + p.ay * d]

updateX_newv(p, d) ==
    LET q == updateVx(p, d) IN [q EXCEPT !.x = p.x + (q.vx + q.vx) * d]

\* self.x + 0.5*(self.vx + self.updateVx(dt))*dt: self.x and self.vx are read
\* before updateVx assigns the new velocity
updateX(p, d) ==
    LET q == updateVx(p, d) IN [q EXCEPT !.x = p.x + (p.vx + q.vx) * d]

updateY(p, d) ==
    LET q == updateVy(p, d) IN [q EXCEPT !.y = p.y + (p.vy + q.vy) * d]

step_noappendy(p, d) ==
    LET q == updateX(p, d)
        r == updateY([q EXCEPT !.xarr = Append(q.xarr, q.x * conversion)], d)
    IN  [r EXCEPT !.time = r.time + d]

step(p, d) ==
    LET q == updateX(p, d)
        q1 == [q EXCEPT !.xarr = Append(q.xarr, q.x * conversion)]
        r == updateY(q1, d)
        r1 == [r EXCEPT !.yarr = Append(r.yarr, r.y * conversion)]
    IN  [r1 EXCEPT !.time = r1.time + d]

---------------------------------------------------------------------------
(* startSimulation *)

LoopCond_gt(p) == p.y > 0

\* while projectile.y >= 0
LoopCond(p) == p.y >= 0

\* projectile = Projectile(...); dt = 0.05; t = 0
Construct ==
    /\ pc = "call"
    /\ mass # 0
    /\ projectile' = Projectile(x0, y0, velocity, angle, mass, wind_force)
    /\ t' = 0
    /\ pc' = "first"
    /\ UNCHANGED <<args, ret, base, windVars>>

\* wind_force / mass with mass = 0: ZeroDivisionError leaves startSimulation
ConstructFail ==
    /\ pc = "call"
    /\ mass = 0
    /\ pc' = "error"
    /\ UNCHANGED <<args, projectile, t, ret, base, windVars>>

\* the projectile.step(dt) before the loop
FirstStep ==
    /\ pc = "first"
    /\ projectile' = step(projectile, dt)
    /\ pc' = "loop"
    /\ UNCHANGED <<args, t, ret, base, windVars>>

\* one iteration of the while loop
LoopStep ==
    /\ pc = "loop"
    /\ LoopCond(projectile)
    /\ projectile.time < MaxSteps * dt
    /\ projectile' = step(projectile, dt)
    /\ t' = t + dt
    /\ UNCHANGED <<args, pc, ret, base, windVars>>

\* the loop test fails: return (projectile.xarr, projectile.yarr)
Return ==
    /\ pc = "loop"
    /\ ~LoopCond(projectile)
    /\ ret' = <<projectile.xarr, projectile.yarr>>
    /\ pc' = "done"
    /\ UNCHANGED <<args, projectile, t, base, windVars>>

NoWind == [area |-> 0, cd |-> 0, mass |-> 0]

NoForce == [c |-> 0, m |-> 0, p |-> 0, k |-> 0]

Init ==
    /\ x0 \in X0s
    /\ y0 \in Heights
    /\ velocity \in Velocities
    /\ angle \in Angles
    /\ mass \in Masses
    /\ wind_force \in WindForces
    /\ pc = "call"
    /\ projectile = NoProjectile
    /\ t = 0
    /\ ret = <<>>
    /\ base = <<>>
    /\ wind = NoWind
    /\ windspeed = 0
    /\ F = NoForce

Next == Construct \/ ConstructFail \/ FirstStep \/ LoopStep \/ Return

Spec == Init /\ [][Next]_vars

\* the interpreter runs the sequential program on: a step that can be taken is taken
LiveSpec == Spec /\ WF_vars(Next)

---------------------------------------------------------------------------
(* The caller's sweep (main): runs that share height, speed and angle; the  *)
(* result of the first run is kept and the later runs vary the horizontal   *)
(* inputs.                                                                  *)

RunRecord ==
    [x0 |-> x0, y0 |-> y0, velocity |-> velocity, angle |-> angle,
     mass |-> mass, wind_force |-> wind_force, xs |-> ret[1], ys |-> ret[2]]

\* X, Y = startSimulation(...); x.append(X); y.append(Y); next iteration
Sweep ==
    /\ pc = "done"
    /\ base' = IF base = <<>> THEN <<RunRecord>> ELSE base
    /\ x0' \in X0s
    /\ mass' \in Masses
    /\ wind_force' \in WindForces
    /\ pc' = "call"
    /\ projectile' = NoProjectile
    /\ t' = 0
    /\ ret' = <<>>
    /\ UNCHANGED <<y0, velocity, angle, windVars>>

\* the first run of the sweep: no wind, as in main's second sweep
InitSweep == Init /\ x0 = 0 /\ mass = 1 /\ wind_force = 0

NextSweep == Next \/ Sweep

SpecSweep == InitSweep /\ [][NextSweep]_vars

---------------------------------------------------------------------------
(* class WindForceModel                                                    *)
(*                                                                         *)
(* The conversion factors 2.23694, 47.8803 and .00256 are kept symbolic: a *)
(* value is a whole coefficient c times mps_to_mph^m * psqft_to_nsqm^p *   *)
(* .00256^k, and a product multiplies the coefficients and adds the        *)
(* exponents.                                                              *)

Num(n) == [c |-> n, m |-> 0, p |-> 0, k |-> 0]

Mul(a, b) == [c |-> a.c * b.c, m |-> a.m + b.m, p |-> a.p + b.p, k |-> a.k + b.k]

mps_to_mph == [c |-> 1, m |-> 1, p |-> 0, k |-> 0]

psqft_to_nsqm == [c |-> 1, m |-> 0, p |-> 1, k |-> 0]

PressureCoefficient == [c |-> 1, m |-> 0, p |-> 0, k |-> 1]

\* WindForceModel.__init__
WindForceModel(cd, h, w, m) == [area |-> h * w, cd |-> cd, mass |-> m]

getWindForce_linear(self, v) ==
    LET velocity_mph == Mul(mps_to_mph, Num(v))
        P == Mul(Mul(PressureCoefficient, velocity_mph), psqft_to_nsqm)
    IN  Mul(Mul(Num(self.area), P), Num(self.cd))

getWindForce(self, v) ==
    LET velocity_mph == Mul(mps_to_mph, Num(v))
        P == Mul(Mul(Mul(PressureCoefficient, velocity_mph), velocity_mph), psqft_to_nsqm)
    IN  Mul(Mul(Num(self.area), P), Num(self.cd))

WindSpeeds == -1..MaxWindSpeed

\* F = wind.getWindForce(w0)
GetWindForce ==
    /\ pc \in {"idle", "force"}
    /\ \E v \in WindSpeeds :
        /\ windspeed' = v
        /\ F' = getWindForce(wind, v)
    /\ pc' = "force"
    /\ UNCHANGED <<args, projectile, t, ret, base, wind>>

\* wind = WindForceModel(cd, h, w, mass), no simulation started
InitWind ==
    /\ \E cd \in 0..MaxCd, h \in 0..MaxDim, w \in 0..MaxDim, m \in 1..MaxMass :
        wind = WindForceModel(cd, h, w, m)
    /\ windspeed = 0
    /\ F = NoForce
    /\ pc = "idle"
    /\ x0 = 0 /\ y0 = 0 /\ velocity = 0 /\ angle = 0 /\ mass = 0 /\ wind_force = 0
    /\ projectile = NoProjectile
    /\ t = 0
    /\ ret = <<>>
    /\ base = <<>>

NextWind == GetWindForce

SpecWind == InitWind /\ [][NextWind]_vars

---------------------------------------------------------------------------
(* Properties *)

Running == {"first", "loop"}

Constructed == {"first", "loop", "done"}

Last(s) == s[Len(s)]

IsPrefix(s, u) == Len(s) <= Len(u) /\ \A i \in 1..Len(s) : s[i] = u[i]

\* q0 + v0*t + 0.5*a*t^2 at t = k*dt, in position units
Kinematic(q0, v0, a, k) == q0 + 2 * v0 * (k * dt) + a * (k * dt) * (k * dt)

C2_Overshoot ==
    (pc = "done" /\ y0 >= 0) =>
        /\ Last(ret[2]) < 0
        /\ \A i \in 1..(Len(ret[2]) - 1) : ret[2][i] >= 0

\* a returned run from y0 > 0 whose second-to-last sample is exactly 0
C2_Witness ==
    /\ pc = "done"
    /\ y0 > 0
    /\ Len(ret[2]) >= 3
    /\ ret[2][Len(ret[2]) - 1] = 0

\* C3 as claimed: once a step produces a sample with y <= 0 (y = 0
\* included) no further step is taken and that sample is the last one
\* returned.
C3_StopsAtOrBelowGround ==
    pc = "done" =>
        \A i \in 2..Len(ret[2]) : ret[2][i] <= 0 => i = Len(ret[2])

\* C3 amended: the run stops as soon as a step produces a sample with y < 0:
\* no sample produced by a step before the last one is negative, the last one
\* is, and it is the last one returned; a sample with y exactly 0 does not
\* stop the run.
C3_StopsBelowGround ==
    /\ pc \in Constructed =>
          \A i \in 2..(Len(projectile.yarr) - 1) : projectile.yarr[i] >= 0
    /\ (pc = "loop" /\ projectile.y = 0) => ENABLED LoopStep /\ ~ENABLED Return
    /\ (pc = "loop" /\ projectile.y < 0) => ENABLED Return /\ ~ENABLED LoopStep
    /\ pc = "done" =>
          /\ Last(ret[2]) < 0
          /\ ret[2] = projectile.yarr

\* a returned run in which a step produced y = 0 and stepping went on
C3_Witness ==
    /\ pc = "done"
    /\ \E i \in 2..(Len(ret[2]) - 1) : ret[2][i] = 0

\* C4: after n steps, sample n and the velocities equal the closed-form
\* constant-acceleration kinematics on each axis.
C4_ClosedForm ==
    pc \in Constructed =>
        LET n == projectile.time \div dt
            vx0 == InitVx(velocity, angle)
            vy0 == InitVy(velocity, angle)
        IN  /\ Len(projectile.xarr) = n + 1
            /\ Len(projectile.yarr) = n + 1
            /\ \A k \in 0..n :
                /\ projectile.xarr[k + 1] = Kinematic(x0, vx0, projectile.ax, k)
                /\ projectile.yarr[k + 1] = Kinematic(y0, vy0, projectile.ay, k)
            /\ projectile.x = Kinematic(x0, vx0, projectile.ax, n)
            /\ projectile.y = Kinematic(y0, vy0, projectile.ay, n)
            /\ projectile.vx = vx0 + projectile.ax * (n * dt)
            /\ projectile.vy = vy0 + projectile.ay * (n * dt)

\* a returned run of at least three steps with wind and both velocity
\* components non-zero
C4_Witness ==
    /\ pc = "done"
    /\ projectile.ax # 0
    /\ InitVx(velocity, angle) # 0
    /\ InitVy(velocity, angle) > 0
    /\ projectile.time >= 3 * dt

\* C5: with wind_force = 0 and mass = 0 (the defaults) startSimulation
\* derives ax = 0, runs and returns, without a division-by-zero error.
C5_ZeroMassNoWind ==
    (pc # "call" /\ mass = 0 /\ wind_force = 0) =>
        /\ pc # "error"
        /\ projectile.ax = 0

\* C6: after every step len(xarr) = len(yarr) = steps + 1, the first entry
\* is (x0, y0), entry k is the position after step k, earlier entries never
\* change, and the returned sequences have equal length >= 2.
C6_HistoryInv ==
    /\ pc \in Constructed =>
          /\ Len(projectile.xarr) = (projectile.time \div dt) + 1
          /\ Len(projectile.yarr) = (projectile.time \div dt) + 1
          /\ projectile.xarr[1] = x0
          /\ projectile.yarr[1] = y0
          /\ Last(projectile.xarr) = projectile.x
          /\ Last(projectile.yarr) = projectile.y
    /\ pc = "first" => projectile.time = 0
    /\ pc = "done" =>
          /\ ret = <<projectile.xarr, projectile.yarr>>
          /\ Len(ret[1]) = Len(ret[2])
          /\ Len(ret[1]) >= 2

C6_AppendOnly ==
    pc \in Running =>
        /\ IsPrefix(projectile.xarr, projectile'.xarr)
        /\ IsPrefix(projectile.yarr, projectile'.yarr)
        /\ projectile' # projectile =>
              /\ projectile'.time = projectile.time + dt
              /\ projectile'.xarr = Append(projectile.xarr, projectile'.x)
              /\ projectile'.yarr = Append(projectile.yarr, projectile'.y)

C6_History == [](C6_HistoryInv) /\ [][C6_AppendOnly]_vars

\* a returned run of at least three steps
C6_Witness ==
    /\ pc = "done"
    /\ Len(ret[1]) >= 4
    /\ projectile.time = (Len(ret[1]) - 1) * dt

\* C7: a run with mass <= 0 and a non-zero wind force aborts with an error
\* before any step is taken and returns no trajectory.
C7_InvalidMassRejected ==
    (pc # "call" /\ mass <= 0 /\ wind_force # 0) =>
        /\ pc = "error"
        /\ projectile = NoProjectile
        /\ ret = <<>>

\* C8: getWindForce(v) = k * v^2 with k = area * cd * .00256 * 47.8803 *
\* 2.23694^2; so force(2v) = 4 * force(v), force(0) = 0, the force is not
\* negative for v >= 0 (cd, area >= 0), and the call leaves area, cd and
\* mass as they were.
C8_ForceInv ==
    LET k == Mul(Num(wind.area * wind.cd),
                 Mul(PressureCoefficient,
                     Mul(psqft_to_nsqm, Mul(mps_to_mph, mps_to_mph))))
    IN  /\ pc = "force" => F = Mul(k, Num(windspeed * windspeed))
        /\ \A v \in WindSpeeds :
            /\ getWindForce(wind, v) = Mul(k, Num(v * v))
            /\ getWindForce(wind, 2 * v) = Mul(Num(4), getWindForce(wind, v))
            /\ v >= 0 => getWindForce(wind, v).c >= 0
        /\ getWindForce(wind, 0).c = 0

C8_WindForce == [](C8_ForceInv) /\ [][wind' = wind]_vars

\* a call with a non-zero speed on a model with non-zero area and cd
C8_Witness ==
    /\ pc = "force"
    /\ windspeed > 1
    /\ wind.area > 1
    /\ wind.cd > 1
    /\ F.c = wind.area * wind.cd * windspeed * windspeed

\* the number of steps of a no-wind, angle-0 run from y0 >= 0 is the least
\* n >= 1 with 4.9*(n*dt)^2 > y0, and the final x is x0 + v*N*dt
C9_Steps(N) ==
    /\ N >= 1
    /\ Last(ret[1]) = x0 + 2 * velocity * (N * dt)
    /\ (-projectile.ay) * (N * dt) * (N * dt) > y0
    /\ (-projectile.ay) * ((N - 1) * dt) * ((N - 1) * dt) <= y0

\* D - C > 0 and D - C <= v*dt, for D the distance travelled and
\* C = v*sqrt(2*y0/9.8) the continuous-time distance, compared by squares
\* (D, C and D - v*dt are not negative)
C9_Exceeds(D) ==
    /\ (-projectile.ay) * D * D > 4 * velocity * velocity * y0
    /\ (-projectile.ay) * (D - 2 * velocity * dt) * (D - 2 * velocity * dt)
          <= 4 * velocity * velocity * y0

\* C9 as claimed: for wind_force = 0, angle 0 and y0 >= 0 the final x is
\* x0 + v*N*dt with N the least n >= 1 such that 4.9*(n*dt)^2 > y0, and it
\* exceeds the continuous-time impact distance by more than 0 and at most
\* v*dt.
C9_ImpactDistance ==
    (pc = "done" /\ wind_force = 0 /\ angle = 0 /\ y0 >= 0) =>
        /\ C9_Steps(Len(ret[1]) - 1)
        /\ C9_Exceeds(Last(ret[1]) - x0)

\* C9 amended: the same, except that the final x exceeds the
\* continuous-time impact distance by more than 0 and at most v*dt only for
\* v > 0; for v = 0 both are x0.
C9_ImpactDistancePositiveSpeed ==
    (pc = "done" /\ wind_force = 0 /\ angle = 0 /\ y0 >= 0) =>
        /\ C9_Steps(Len(ret[1]) - 1)
        /\ velocity > 0 => C9_Exceeds(Last(ret[1]) - x0)
        /\ velocity = 0 => Last(ret[1]) = x0

\* a returned no-wind horizontal launch from y0 > 0 at positive speed
C9_Witness ==
    /\ pc = "done"
    /\ wind_force = 0
    /\ angle = 0
    /\ y0 > 0
    /\ velocity > 0
    /\ Len(ret[1]) >= 3

\* C10: two runs that agree on y0, velocity and angle return the same y
\* sequence (hence the same number of samples), whatever x0, mass and
\* wind_force are; ax and ay keep their initial values during a run.
C10_SameY ==
    (base # <<>> /\ pc \in Constructed
       /\ base[1].y0 = y0 /\ base[1].velocity = velocity /\ base[1].angle = angle) =>
        /\ IsPrefix(projectile.yarr, base[1].ys)
        /\ pc = "done" =>
              /\ ret[2] = base[1].ys
              /\ Len(ret[1]) = Len(base[1].xs)

C10_FixedAcceleration ==
    (pc \in Running /\ pc' \in Constructed) =>
        /\ projectile'.ax = projectile.ax
        /\ projectile'.ay = projectile.ay

C10_AxesIndependent == [](C10_SameY) /\ [][C10_FixedAcceleration]_vars

\* a second run of a sweep that returned, with x0, mass and wind_force all
\* different from the first run's
C10_Witness ==
    /\ pc = "done"
    /\ base # <<>>
    /\ base[1].x0 # x0
    /\ base[1].mass # mass
    /\ base[1].wind_force # wind_force
    /\ ret[1] # base[1].xs
    /\ Len(ret[2]) >= 4

===========================================================================
